---- MODULE Spec2Model ----
(***************************************************************************)
(* Model of logstash_index_cleaner.py: main(), the two selector generators *)
(* find_expired_indices / find_overusage_indices and get_index_epoch.      *)
(*                                                                         *)
(* Strings are sequences of one-character strings.  The interpreter is the *)
(* one the script targets (Python 2.7, the pyes bindings): time.mktime     *)
(* accepts a 9-item list and maps a year below 1900 through accept2dyear.  *)
(* Times are whole seconds since the epoch.  Sizes are bytes; a float      *)
(* number of GB is a dyadic fraction [num, den].                           *)
(***************************************************************************)
EXTENDS Integers, Sequences, FiniteSets, TLC

VARIABLES
    arguments,        \* the parsed command line (argparse namespace)
    clock,            \* time.time(), time.timezone, time.altzone of the process
    cluster,          \* names of the indices present in Elasticsearch
    pc,               \* position of main()
    connected,        \* pyes.ES(...) was constructed
    expired_indices,  \* which generator main() bound to expired_indices
    started,          \* the generator ran its prologue (first next())
    listing,          \* the sorted listing the generator iterates
    pos,              \* number of listing entries the generator has consumed
    utc_now_time,     \* find_expired_indices' utc_now_time
    disk_usage,       \* find_overusage_indices' accumulator
    current,          \* the tuple the generator just yielded to main()'s loop
    yielded,          \* every tuple yielded so far, in order
    scanned,          \* connection.status() calls so far: [name, size]
    deleteCalls,      \* connection.delete_index_if_exists() calls: [name, ok]
    log,              \* the printed diagnostics: [kind, name]
    error,            \* the exception that ended the run, or "none"
    errorAt           \* the index being processed when it was raised

vars == <<arguments, clock, cluster, pc, connected, expired_indices, started,
          listing, pos, utc_now_time, disk_usage, current, yielded, scanned,
          deleteCalls, log, error, errorAt>>

----------------------------------------------------------------------------
(* Bounds of the model *)

MaxIndices == 3

----------------------------------------------------------------------------
(* Python values *)

None == [some |-> FALSE, v |-> 0]

Some(x) == [some |-> TRUE, v |-> x]

\* truth value of an optional int, as in "if arguments.days_to_keep:"
Truthy(o) == o.some /\ o.v # 0

\* truth value of an optional float, as in "if arguments.disk_space_to_keep:"
TruthyFloat(o) == o.some /\ o.v.num # 0

Ord ==
    ("-" :> 45) @@ ("." :> 46) @@
    ("0" :> 48) @@ ("1" :> 49) @@ ("2" :> 50) @@ ("3" :> 51) @@ ("4" :> 52) @@
    ("5" :> 53) @@ ("6" :> 54) @@ ("7" :> 55) @@ ("8" :> 56) @@ ("9" :> 57) @@
    ("X" :> 88) @@ ("Y" :> 89) @@ ("_" :> 95) @@
    ("a" :> 97) @@ ("e" :> 101) @@ ("g" :> 103) @@ ("h" :> 104) @@
    ("l" :> 108) @@ ("o" :> 111) @@ ("r" :> 114) @@ ("s" :> 115) @@ ("t" :> 116)

IsDigitChar(c) == Ord[c] >= 48 /\ Ord[c] <= 57

\* str.isdigit(): non-empty and every character a digit
isdigit(s) == Len(s) > 0 /\ \A i \in 1..Len(s) : IsDigitChar(s[i])

\* variant of startswith: the prefix test always passes
startswith_any(s, prefix) == TRUE

\* str.startswith(prefix)
startswith(s, prefix) ==
    Len(s) >= Len(prefix) /\ SubSeq(s, 1, Len(prefix)) = prefix

\* s[n:]
SliceFrom(s, n) == IF n >= Len(s) THEN <<>> ELSE SubSeq(s, n + 1, Len(s))

\* str.split(separator) for a one-character separator
RECURSIVE split(_, _)
split(s, separator) ==
    IF \A i \in 1..Len(s) : s[i] # separator
    THEN <<s>>
    ELSE LET i == CHOOSE k \in 1..Len(s) :
                     s[k] = separator /\ \A j \in 1..(k-1) : s[j] # separator
         IN <<SubSeq(s, 1, i - 1)>> \o split(SliceFrom(s, i), separator)

\* the value of a string of digits
RECURSIVE DigitsValue(_)
DigitsValue(s) ==
    IF Len(s) = 0 THEN 0
    ELSE 10 * DigitsValue(SubSeq(s, 1, Len(s) - 1)) + (Ord[s[Len(s)]] - 48)

\* int(s): digits with an optional sign, else ValueError
int(s) ==
    IF isdigit(s) THEN [ok |-> TRUE, v |-> DigitsValue(s)]
    ELSE IF Len(s) > 1 /\ s[1] = "-" /\ isdigit(SliceFrom(s, 1))
         THEN [ok |-> TRUE, v |-> 0 - DigitsValue(SliceFrom(s, 1))]
    ELSE [ok |-> FALSE, v |-> 0]

\* a < b for str (code point order)
RECURSIVE StrLess(_, _)
StrLess(a, b) ==
    IF Len(b) = 0 THEN FALSE
    ELSE IF Len(a) = 0 THEN TRUE
    ELSE IF a[1] # b[1] THEN Ord[a[1]] < Ord[b[1]]
    ELSE StrLess(Tail(a), Tail(b))

\* sorted(set(...))
RECURSIVE sorted(_)
sorted(S) ==
    IF S = {} THEN <<>>
    ELSE LET m == CHOOSE x \in S : \A y \in S \ {x} : StrLess(x, y)
         IN <<m>> \o sorted(S \ {m})

\* reversed(seq)
reversed(s) == [i \in 1..Len(s) |-> s[Len(s) + 1 - i]]

----------------------------------------------------------------------------
(* time.mktime *)

\* days from 1970-01-01 to the civil date y-m-d (proleptic Gregorian)
DaysFromCivil(y, m, d) ==
    LET yy  == IF m <= 2 THEN y - 1 ELSE y
        era == yy \div 400
        yoe == yy - era * 400
        mp  == IF m > 2 THEN m - 3 ELSE m + 9
        doy == (153 * mp + 2) \div 5 + d - 1
        doe == yoe * 365 + yoe \div 4 - yoe \div 100 + doy
    IN era * 146097 + doe - 719468

\* The year of a time tuple (accept2dyear is on): [ok, v]
TupleYear(y) ==
    IF y >= 1900 THEN [ok |-> TRUE, v |-> y]
    ELSE IF 69 <= y /\ y <= 99 THEN [ok |-> TRUE, v |-> y + 1900]
    ELSE IF 0 <= y /\ y <= 68 THEN [ok |-> TRUE, v |-> y + 2000]
    ELSE [ok |-> FALSE, v |-> 0]

\* C mktime of (year, month, day, hour, 0, 0) with tm_isdst = 0: out-of-range
\* months, days and hours are normalised, the result is local standard time.
mktime(year, month, day, hour, timezone) ==
    LET y == year + (month - 1) \div 12
        m == ((month - 1) % 12) + 1
    IN (DaysFromCivil(y, m, 1) + (day - 1)) * 86400 + hour * 3600 + timezone

\* get_index_epoch(index_timestamp) with its default separator '.':
\* [err, v], err the exception raised or "none"
get_index_epoch(index_timestamp, timezone) ==
    LET parts == split(index_timestamp, ".")
        year_month_day_optionalhour ==
            IF Len(parts) = 3 THEN Append(parts, <<"3">>) ELSE parts
        n == Len(year_month_day_optionalhour)
        ints == [i \in 1..n |-> int(year_month_day_optionalhour[i])]
    IN IF \E i \in 1..n : ~ints[i].ok THEN [err |-> "ValueError", v |-> 0]
       ELSE IF n + 5 # 9 THEN [err |-> "TypeError", v |-> 0]
       ELSE IF ~TupleYear(ints[1].v).ok THEN [err |-> "ValueError", v |-> 0]
       ELSE [err |-> "none",
             v |-> mktime(TupleYear(ints[1].v).v, ints[2].v, ints[3].v,
                          ints[4].v, timezone)]

----------------------------------------------------------------------------
(* find_expired_indices *)

days_cutoff(now, days_to_keep) ==
    IF days_to_keep.some THEN Some(now - days_to_keep.v * 24 * 60 * 60) ELSE None

hours_cutoff(now, hours_to_keep) ==
    IF hours_to_keep.some THEN Some(now - hours_to_keep.v * 60 * 60) ELSE None

unprefixed_index_name(index_name, prefix) ==
    SliceFrom(index_name, Len(prefix) + 1)

\* the "basic validation" of the timestamp parts
valid_parts(parts) ==
    ~(Len(parts) < 3 \/ Len(parts) > 4
      \/ ~(\A i \in 1..Len(parts) : isdigit(parts[i])))

\* variant of cutoff_for: the two cutoffs exchanged
cutoff_for_swapped(parts, dcut, hcut) == IF Len(parts) = 3 THEN hcut ELSE dcut

\* the cutoff an index with these parts is compared to
cutoff_for(parts, dcut, hcut) == IF Len(parts) = 3 THEN dcut ELSE hcut

\* variant of is_expired: the comparison reversed
is_expired_reversed(index_epoch, cutoff) == index_epoch > cutoff

\* index_epoch < cutoff
is_expired(index_epoch, cutoff) == index_epoch < cutoff

\* One iteration of the loop of find_expired_indices:
\* [kind, by, err], kind the branch taken.
expired_iteration(index_name, prefix, separator, dcut, hcut, timezone) ==
    LET unprefixed == unprefixed_index_name(index_name, prefix)
        parts == split(unprefixed, separator)
        cutoff == cutoff_for(parts, dcut, hcut)
        epoch == get_index_epoch(unprefixed, timezone)
    IN IF ~startswith(index_name, prefix)
       THEN [kind |-> "skip_prefix", by |-> 0, err |-> "none"]
       ELSE IF ~valid_parts(parts)
       THEN [kind |-> "skip_invalid", by |-> 0, err |-> "none"]
       ELSE IF ~cutoff.some
       THEN [kind |-> "skip_granularity", by |-> 0, err |-> "none"]
       ELSE IF epoch.err # "none"
       THEN [kind |-> "raise", by |-> 0, err |-> epoch.err]
       ELSE IF is_expired(epoch.v, cutoff.v)
       THEN [kind |-> "yield", by |-> cutoff.v - epoch.v, err |-> "none"]
       ELSE [kind |-> "above_cutoff", by |-> 0, err |-> "none"]

----------------------------------------------------------------------------
(* find_overusage_indices *)

\* disk_space_to_keep * 2**30, disk_space_to_keep the fraction num/den of a GB
disk_limit(disk_space_to_keep) ==
    disk_space_to_keep.num * ((2^30) \div disk_space_to_keep.den)

\* variant of over_limit: the budget itself counts as exceeded
over_limit_inclusive(usage, limit) == usage >= limit

\* disk_usage > disk_limit
over_limit(usage, limit) == usage > limit

----------------------------------------------------------------------------
(* The inputs of a run *)

logstash == <<"l","o","g","s","t","a","s","h","-">>

\* a prefix given without the trailing dash
logstash_bare == <<"l","o","g","s","t","a","s","h">>

other == <<"o","t","h","e","r","-">>

IndexNames ==
    { logstash \o <<"2","0","2","4",".","0","3",".","0","1">>,
      logstash \o <<"2","0","2","4",".","0","3",".","0","8">>,
      logstash \o <<"2","0","2","4",".","0","2",".","0","1">>,
      logstash \o <<"2","0","2","4",".","0","3",".","X","Y">>,
      logstash \o <<"2","0","2","4",".","0","3",".","0","9",".","0","5">>,
      logstash \o <<"1","9","9","9",".","1","2",".","3","1">>,
      logstash \o <<"2","0","2","4","_","0","3","_","0","1">>,
      other \o <<"2","0","2","4",".","0","3",".","0","1">> }

\* the listings get_indices() may return
Listings == { S \in SUBSET IndexNames : Cardinality(S) <= MaxIndices }

\* primary_size_in_bytes of an index: 0, an eighth and a quarter of a GB
IndexSizes == { 0, 2^27, 2^28 }

\* 2024-03-10 12:00:00 UTC
Times == { DaysFromCivil(2024, 3, 10) * 86400 + 12 * 3600 }

\* time.timezone and time.altzone: UTC, and US Eastern
Clocks ==
    { [time |-> t, timezone |-> z[1], altzone |-> z[2]] :
        t \in Times, z \in { <<0, 0>>, <<18000, 14400>> } }

\* what parser().parse_args() can return. A run under the disk policy reads
\* neither the retention windows nor the separator, so those vary less there.
Arguments ==
    { a \in [ days_to_keep       : { None, Some(0), Some(5), Some(30) },
              hours_to_keep      : { None, Some(24) },
              disk_space_to_keep : { None, Some([num |-> 0, den |-> 8]),
                                     Some([num |-> 2, den |-> 8]) },
              dry_run            : BOOLEAN,
              prefix             : { logstash, logstash_bare },
              separator          : { ".", "_" } ] :
        a.disk_space_to_keep.some =>
            /\ a.hours_to_keep = None
            /\ a.days_to_keep \in { None, Some(5) }
            /\ a.separator = "." }

NoItem == [name |-> <<>>, by |-> 0]

----------------------------------------------------------------------------
(* main *)

Init ==
    /\ arguments \in Arguments
    /\ clock \in Clocks
    /\ arguments.disk_space_to_keep.some => clock.timezone = 0
    /\ cluster \in Listings
    /\ pc = "start"
    /\ connected = FALSE
    /\ expired_indices = "unbound"
    /\ started = FALSE
    /\ listing = <<>>
    /\ pos = 0
    /\ utc_now_time = 0
    /\ disk_usage = 0
    /\ current = NoItem
    /\ yielded = <<>>
    /\ scanned = <<>>
    /\ deleteCalls = <<>>
    /\ log = <<>>
    /\ error = "none"
    /\ errorAt = <<>>

\* the test that opens main(): no option with a true value
no_option(a) ==
    ~Truthy(a.hours_to_keep) /\ ~Truthy(a.days_to_keep)
    /\ ~TruthyFloat(a.disk_space_to_keep)

\* the generator expired_indices is bound to after the three "if"s of main()
selected_generator(a) ==
    IF TruthyFloat(a.disk_space_to_keep) THEN "overusage" ELSE "expired"

\* variant of is_dry_run: the flag is ignored
is_dry_run_ignored(a) == FALSE

\* "if arguments.dry_run:"
is_dry_run(a) == a.dry_run

\* variant of after_delete: a failed delete ends the loop
after_delete_stop_on_failure(ok) == IF ok THEN "next" ELSE "done"

\* where main()'s loop goes after a delete call returned
after_delete(ok) == "next"

\* main(): no option given. The message is printed, then parser.print_help()
\* is looked up on the module-level function parser and raises.
MainUsageError ==
    /\ pc = "start"
    /\ no_option(arguments)
    /\ log' = Append(log, [kind |-> "usage", name |-> <<>>])
    /\ error' = "AttributeError"
    /\ pc' = "raised"
    /\ UNCHANGED <<arguments, clock, cluster, connected, expired_indices,
                   started, listing, pos, utc_now_time, disk_usage, current,
                   yielded, scanned, deleteCalls, errorAt>>

\* main(): the connection is made and expired_indices bound
MainSelect ==
    /\ pc = "start"
    /\ ~no_option(arguments)
    /\ connected' = TRUE
    /\ expired_indices' = selected_generator(arguments)
    /\ pc' = "next"
    /\ UNCHANGED <<arguments, clock, cluster, started, listing, pos,
                   utc_now_time, disk_usage, current, yielded, scanned,
                   deleteCalls, log, error, errorAt>>

\* first next() of find_expired_indices: the cutoffs' clock and the listing
ExpiredStart ==
    /\ pc = "next" /\ expired_indices = "expired" /\ ~started
    /\ started' = TRUE
    /\ utc_now_time' = clock.time + clock.altzone
    /\ listing' = sorted(cluster)
    /\ UNCHANGED <<arguments, clock, cluster, pc, connected, expired_indices,
                   pos, disk_usage, current, yielded, scanned, deleteCalls,
                   log, error, errorAt>>

\* one iteration of the loop of find_expired_indices
ExpiredIteration ==
    /\ pc = "next" /\ expired_indices = "expired" /\ started
    /\ pos < Len(listing)
    /\ LET index_name == listing[pos + 1]
           r == expired_iteration(
                    index_name, arguments.prefix, arguments.separator,
                    days_cutoff(utc_now_time, arguments.days_to_keep),
                    hours_cutoff(utc_now_time, arguments.hours_to_keep),
                    clock.timezone)
       IN /\ pos' = pos + 1
          /\ IF r.kind = "raise"
             THEN /\ error' = r.err
                  /\ errorAt' = index_name
                  /\ pc' = "raised"
                  /\ UNCHANGED <<current, yielded, log>>
             ELSE IF r.kind = "yield"
             THEN /\ current' = [name |-> index_name, by |-> r.by]
                  /\ yielded' = Append(yielded, current')
                  /\ pc' = "body"
                  /\ UNCHANGED <<log, error, errorAt>>
             ELSE /\ log' = Append(log, [kind |-> r.kind, name |-> index_name])
                  /\ UNCHANGED <<pc, current, yielded, error, errorAt>>
    /\ UNCHANGED <<arguments, clock, cluster, connected, expired_indices,
                   started, listing, utc_now_time, disk_usage, scanned,
                   deleteCalls>>

\* first next() of find_overusage_indices: the listing, newest first
OverusageStart ==
    /\ pc = "next" /\ expired_indices = "overusage" /\ ~started
    /\ started' = TRUE
    /\ disk_usage' = 0
    /\ listing' = reversed(sorted(cluster))
    /\ UNCHANGED <<arguments, clock, cluster, pc, connected, expired_indices,
                   pos, utc_now_time, current, yielded, scanned, deleteCalls,
                   log, error, errorAt>>

\* one iteration of the loop of find_overusage_indices
OverusageIteration ==
    /\ pc = "next" /\ expired_indices = "overusage" /\ started
    /\ pos < Len(listing)
    /\ pos' = pos + 1
    /\ LET index_name == listing[pos + 1]
       IN IF ~startswith(index_name, arguments.prefix)
          THEN /\ log' = Append(log, [kind |-> "skip_prefix", name |-> index_name])
               /\ UNCHANGED <<pc, disk_usage, current, yielded, scanned>>
          ELSE \E index_size \in IndexSizes :
               /\ scanned' = Append(scanned, [name |-> index_name,
                                              size |-> index_size])
               /\ disk_usage' = disk_usage + index_size
               /\ IF over_limit(disk_usage',
                                disk_limit(arguments.disk_space_to_keep.v))
                  THEN /\ current' = [name |-> index_name, by |-> 0]
                       /\ yielded' = Append(yielded, current')
                       /\ pc' = "body"
                       /\ UNCHANGED log
                  ELSE /\ log' = Append(log, [kind |-> "keeping",
                                              name |-> index_name])
                       /\ UNCHANGED <<pc, current, yielded>>
    /\ UNCHANGED <<arguments, clock, cluster, connected, expired_indices,
                   started, listing, utc_now_time, deleteCalls, error, errorAt>>

\* the body of main()'s loop, dry run
MainWouldDelete ==
    /\ pc = "body"
    /\ is_dry_run(arguments)
    /\ log' = Append(log, [kind |-> "would_delete", name |-> current.name])
    /\ pc' = "next"
    /\ UNCHANGED <<arguments, clock, cluster, connected, expired_indices,
                   started, listing, pos, utc_now_time, disk_usage, current,
                   yielded, scanned, deleteCalls, error, errorAt>>

\* the body of main()'s loop: the delete call and its report
MainDelete ==
    /\ pc = "body"
    /\ ~is_dry_run(arguments)
    /\ \E ok \in BOOLEAN :
         /\ deleteCalls' = Append(deleteCalls, [name |-> current.name, ok |-> ok])
         /\ cluster' = IF ok THEN cluster \ {current.name} ELSE cluster
         /\ log' = Append(log, [kind |-> IF ok THEN "deleted" ELSE "delete_error",
                                name |-> current.name])
         /\ pc' = after_delete(ok)
    /\ UNCHANGED <<arguments, clock, connected, expired_indices, started,
                   listing, pos, utc_now_time, disk_usage, current, yielded,
                   scanned, error, errorAt>>

\* the generator is exhausted: main() prints "Done" and returns
MainDone ==
    /\ pc = "next" /\ started /\ pos = Len(listing)
    /\ pc' = "done"
    /\ UNCHANGED <<arguments, clock, cluster, connected, expired_indices,
                   started, listing, pos, utc_now_time, disk_usage, current,
                   yielded, scanned, deleteCalls, log, error, errorAt>>

Next ==
    \/ MainUsageError
    \/ MainSelect
    \/ ExpiredStart
    \/ ExpiredIteration
    \/ OverusageStart
    \/ OverusageIteration
    \/ MainWouldDelete
    \/ MainDelete
    \/ MainDone

Spec == Init /\ [][Next]_vars

----------------------------------------------------------------------------
(* find_expired_indices as a whole: the names it yields for a listing, up  *)
(* to the iteration that raises.                                           *)

RECURSIVE find_expired_names(_, _, _, _)
find_expired_names(names, a, now, timezone) ==
    IF names = <<>> THEN {}
    ELSE LET r == expired_iteration(
                      Head(names), a.prefix, a.separator,
                      days_cutoff(now, a.days_to_keep),
                      hours_cutoff(now, a.hours_to_keep), timezone)
         IN IF r.kind = "raise" THEN {}
            ELSE (IF r.kind = "yield" THEN {Head(names)} ELSE {})
                 \cup find_expired_names(Tail(names), a, now, timezone)

----------------------------------------------------------------------------
(* Vocabulary of the properties *)

Range(s) == { s[i] : i \in DOMAIN s }

HasPrefix(name, p) ==
    Len(name) >= Len(p) /\ \A i \in 1..Len(p) : name[i] = p[i]

YieldedNames == { yielded[i].name : i \in DOMAIN yielded }

DeletedNames == { deleteCalls[i].name : i \in DOMAIN deleteCalls }

Logged(kind, name) == \E i \in DOMAIN log : log[i] = [kind |-> kind, name |-> name]

CountLogged(kind) == Cardinality({ i \in DOMAIN log : log[i].kind = kind })

\* the yielded tuples main()'s loop body has finished with
Handled ==
    IF pc = "body" THEN SubSeq(yielded, 1, Len(yielded) - 1) ELSE yielded

\* the part of the name after the prefix, and its parts
Suffix(name) == SliceFrom(name, Len(arguments.prefix))

SuffixParts(name) == split(Suffix(name), arguments.separator)

AllDigits(parts) ==
    \A i \in 1..Len(parts) :
        Len(parts[i]) > 0 /\ \A j \in 1..Len(parts[i]) :
            parts[i][j] \in {"0","1","2","3","4","5","6","7","8","9"}

\* prefix + Y<sep>M<sep>D with digit parts
IsDailyName(name) ==
    /\ HasPrefix(name, arguments.prefix)
    /\ Len(SuffixParts(name)) = 3
    /\ AllDigits(SuffixParts(name))

\* the point in time the full date of a daily name denotes, hour 3
DatePoint(name) ==
    LET p == SuffixParts(name)
    IN mktime(DigitsValue(p[1]), DigitsValue(p[2]), DigitsValue(p[3]), 3,
              clock.timezone)

NowAdjusted == clock.time + clock.altzone

RunEnded == pc \in {"done", "raised"}

RECURSIVE CumSize(_)
CumSize(i) == IF i = 0 THEN 0 ELSE CumSize(i - 1) + scanned[i].size

\* the entries of a sequence of names that carry the prefix, in order
RECURSIVE Prefixed(_)
Prefixed(names) ==
    IF names = <<>> THEN <<>>
    ELSE IF HasPrefix(Head(names), arguments.prefix)
         THEN <<Head(names)>> \o Prefixed(Tail(names))
         ELSE Prefixed(Tail(names))

----------------------------------------------------------------------------
(* C1: for every index named prefix + Y<sep>M<sep>D and every days_to_keep *)
(* = N, find_expired_indices yields the index if and only if the point in  *)
(* time of the full date in the name (hour 3) is strictly earlier than     *)
(* now_adjusted - N*86400, and the duration yielded is the cutoff minus    *)
(* that point.  Stated of a finished run; the code does not satisfy it.    *)
C1_ExpiredByFullDate ==
    (expired_indices = "expired" /\ arguments.days_to_keep.some /\ RunEnded) =>
        \A name \in cluster \cup Range(listing) :
            IsDailyName(name) =>
                LET cutoff == NowAdjusted - arguments.days_to_keep.v * 86400
                IN /\ name \in YieldedNames <=> DatePoint(name) < cutoff
                   /\ \A i \in DOMAIN yielded :
                        yielded[i].name = name =>
                            yielded[i].by = cutoff - DatePoint(name)

(* C2: the disk-usage sweep scans the prefixed indices in descending name  *)
(* order and yields exactly those whose cumulative size, themselves        *)
(* included, exceeds disk_space_to_keep * 2^30; once an index is yielded   *)
(* every prefixed index scanned after it is yielded too.                   *)
C2_PrefixSumThreshold ==
    expired_indices = "overusage" =>
        LET limit == disk_limit(arguments.disk_space_to_keep.v)
        IN /\ \A i \in 1..(Len(listing) - 1) : StrLess(listing[i + 1], listing[i])
           /\ [i \in DOMAIN scanned |-> scanned[i].name]
                  = Prefixed(SubSeq(listing, 1, pos))
           /\ disk_usage = CumSize(Len(scanned))
           /\ \A i \in DOMAIN scanned :
                scanned[i].name \in YieldedNames <=> CumSize(i) > limit
           /\ YieldedNames \subseteq { scanned[i].name : i \in DOMAIN scanned }
           /\ \A i \in DOMAIN yielded : yielded[i].by = 0
           /\ \A i, j \in DOMAIN scanned :
                (i < j /\ scanned[i].name \in YieldedNames)
                    => scanned[j].name \in YieldedNames

\* three indices of 1/8, 2/8 and 1/8 GB newest first under a budget of 2/8 GB:
\* the second and the third are selected
C2_Witness ==
    /\ expired_indices = "overusage" /\ pc = "done"
    /\ Len(scanned) = 3
    /\ <<scanned[1].size, scanned[2].size, scanned[3].size>> = <<2^27, 2^28, 2^27>>
    /\ disk_limit(arguments.disk_space_to_keep.v) = 2^28
    /\ YieldedNames = {scanned[2].name, scanned[3].name}

(* C3: an index whose name lacks the configured prefix is never yielded by *)
(* either selector, gets no delete call, is not counted into disk_usage,   *)
(* and does not make the selector raise: it is skipped with a diagnostic.  *)
C3_PrefixGuard ==
    /\ \A n \in YieldedNames \cup DeletedNames : HasPrefix(n, arguments.prefix)
    /\ \A i \in DOMAIN scanned : HasPrefix(scanned[i].name, arguments.prefix)
    /\ disk_usage = CumSize(Len(scanned))
    /\ error \in {"ValueError", "TypeError"} => HasPrefix(errorAt, arguments.prefix)
    /\ \A i \in 1..pos :
         ~HasPrefix(listing[i], arguments.prefix)
             => Logged("skip_prefix", listing[i])

C3_Witness ==
    /\ pc = "done" /\ expired_indices = "overusage"
    /\ \E n \in Range(listing) : ~HasPrefix(n, arguments.prefix)
    /\ Len(scanned) = 2
    /\ Len(deleteCalls) = 1
    /\ disk_usage > 0

(* C4: find_expired_indices never lets an error escape: an index whose     *)
(* suffix fails the validation is skipped, one that passes is parsed, and  *)
(* every index of the listing is evaluated.  The code does not satisfy it. *)
C4_SkipAndContinue ==
    expired_indices = "expired" =>
        /\ error = "none"
        /\ pc # "raised"

(* C5: under the dry-run flag the run issues no delete call, prints one    *)
(* 'would delete' notice per yielded index, in order, and leaves the set   *)
(* of indices in the cluster as it was listed.                             *)
C5_DryRun ==
    arguments.dry_run =>
        /\ deleteCalls = <<>>
        /\ started => cluster = Range(listing)
        /\ CountLogged("would_delete") = Len(Handled)
        /\ \A i \in DOMAIN Handled : Logged("would_delete", Handled[i].name)
        /\ CountLogged("deleted") = 0 /\ CountLogged("delete_error") = 0

C5_Witness ==
    /\ arguments.dry_run /\ pc = "done"
    /\ Len(yielded) = 3
    /\ CountLogged("would_delete") = 3
    /\ deleteCalls = <<>>
    /\ Cardinality(cluster) = 3

(* C6: in find_expired_indices a 3-part index is compared only with        *)
(* days_cutoff and a 4-part index only with hours_cutoff; an index whose   *)
(* granularity has no retention value configured is skipped, never         *)
(* yielded.                                                                *)
C6_GranularityGating ==
    expired_indices = "expired" =>
        /\ \A i \in DOMAIN yielded :
             LET name  == yielded[i].name
                 n     == Len(SuffixParts(name))
                 keep  == IF n = 3 THEN arguments.days_to_keep
                                   ELSE arguments.hours_to_keep
                 unit  == IF n = 3 THEN 86400 ELSE 3600
                 epoch == get_index_epoch(
                              unprefixed_index_name(name, arguments.prefix),
                              clock.timezone).v
             IN /\ n \in {3, 4}
                /\ keep.some
                /\ yielded[i].by = (utc_now_time - keep.v * unit) - epoch
                /\ yielded[i].by > 0
        /\ \A i \in 1..pos :
             LET name == listing[i]
                 n    == Len(SuffixParts(name))
             IN (/\ HasPrefix(name, arguments.prefix)
                 /\ AllDigits(SuffixParts(name))
                 /\ \/ n = 3 /\ ~arguments.days_to_keep.some
                    \/ n = 4 /\ ~arguments.hours_to_keep.some)
                => name \notin YieldedNames

\* only hours_to_keep given: an old daily index is skipped, the hourly one yielded
C6_Witness ==
    /\ expired_indices = "expired" /\ pc = "done"
    /\ ~arguments.days_to_keep.some /\ arguments.hours_to_keep.some
    /\ \E n \in Range(listing) :
         /\ Len(SuffixParts(n)) = 3 /\ Logged("skip_granularity", n)
         /\ IsDailyName(n) /\ DatePoint(n) < NowAdjusted - 30 * 86400
    /\ \E i \in DOMAIN yielded : Len(SuffixParts(yielded[i].name)) = 4

\* days_to_keep values compared in C7
RetentionDays == {0 - 1, 0, 1, 5, 9, 30, 40}

(* C7: for a fixed listing, clock, hours_to_keep, prefix and separator and *)
(* d1 <= d2, what find_expired_indices yields with days_to_keep = d2 is a  *)
(* subset of what it yields with days_to_keep = d1.                        *)
C7_Monotonic ==
    (expired_indices = "expired" /\ arguments.days_to_keep.some /\ RunEnded) =>
        \A d \in RetentionDays :
            LET other_run ==
                    find_expired_names(
                        listing, [arguments EXCEPT !.days_to_keep = Some(d)],
                        utc_now_time, clock.timezone)
            IN /\ d >= arguments.days_to_keep.v => other_run \subseteq YieldedNames
               /\ d <= arguments.days_to_keep.v => YieldedNames \subseteq other_run

\* days_to_keep = 5 yields strictly more than days_to_keep = 30 does
C7_Witness ==
    /\ expired_indices = "expired" /\ pc = "done"
    /\ arguments.days_to_keep = Some(5)
    /\ LET other_run ==
               find_expired_names(
                   listing, [arguments EXCEPT !.days_to_keep = Some(30)],
                   utc_now_time, clock.timezone)
       IN /\ other_run # {}
          /\ other_run # YieldedNames
          /\ other_run \subseteq YieldedNames

(* C8: in a run that is not a dry run, one delete call is issued for each  *)
(* yielded index, in selection order, none twice; a failed delete is       *)
(* reported and the loop goes on to the later selected indices.            *)
C8_FireAndContinue ==
    ~arguments.dry_run =>
        /\ [i \in DOMAIN deleteCalls |-> deleteCalls[i].name]
               = [i \in DOMAIN Handled |-> Handled[i].name]
        /\ \A i, j \in DOMAIN deleteCalls :
             deleteCalls[i].name = deleteCalls[j].name => i = j
        /\ \A i \in DOMAIN deleteCalls :
             Logged(IF deleteCalls[i].ok THEN "deleted" ELSE "delete_error",
                    deleteCalls[i].name)
        /\ CountLogged("deleted") + CountLogged("delete_error") = Len(deleteCalls)
        /\ pc = "done" => pos = Len(listing)

\* the first delete failed and two more calls followed it
C8_Witness ==
    /\ ~arguments.dry_run /\ pc = "done"
    /\ Len(deleteCalls) = 3
    /\ ~deleteCalls[1].ok
    /\ deleteCalls[2].ok
    /\ ~deleteCalls[3].ok

UsagePathTaken == \E i \in DOMAIN log : log[i].kind = "usage"

(* C9: main takes the usage-error path exactly when none of the three      *)
(* options is supplied; it then prints the error and the help text and     *)
(* returns normally, with no connection and no list, size or delete call.  *)
(* The code does not satisfy it.                                           *)
C9_UsageError ==
    pc # "start" =>
        /\ UsagePathTaken <=>
              (/\ ~arguments.days_to_keep.some
               /\ ~arguments.hours_to_keep.some
               /\ ~arguments.disk_space_to_keep.some)
        /\ UsagePathTaken =>
              /\ CountLogged("help") = 1
              /\ error = "none"
              /\ ~connected /\ ~started
              /\ scanned = <<>> /\ deleteCalls = <<>>

(* C10: the indices handed to the executor come from the selector of the   *)
(* one policy supplied; a supplied retention window is never discarded in  *)
(* favour of the disk policy.  The code does not satisfy it.               *)
C10_PolicyExclusive ==
    (/\ expired_indices # "unbound"
     /\ arguments.days_to_keep.some \/ arguments.hours_to_keep.some)
        => expired_indices = "expired"

====
